---------------------------- MODULE Spec2Model ----------------------------
(***************************************************************************)
(* A model of the drissy-browser scraping/search proxy (src/server.js,     *)
(* src/browser-manager.js): the search cache and throttle, the two search  *)
(* backends, the tiered extraction engine and the browser session pool.    *)
(*                                                                         *)
(* Node runs every handler on one thread: a handler runs without           *)
(* interruption from one await to the next.  Each action below is one such *)
(* run-to-completion segment of a handler.  Strings are sequences of       *)
(* one-character (or one-token) strings, so that trim, toLowerCase,        *)
(* indexOf and slice are computed rather than assumed.                     *)
(***************************************************************************)
EXTENDS Integers, Sequences, FiniteSets, TLC

(***************************************************************************)
(* Bounds of the model.                                                    *)
(***************************************************************************)
MaxReqs == 2            \* search requests in one behaviour
MaxTicks == 2           \* clock advances in one behaviour
StartTime == 10000000   \* Date.now() when the first request arrives
MaxCalls == 2           \* /extract and /health requests in one behaviour
MaxItems == 5           \* items of the /extract-batch request

(***************************************************************************)
(* Program constants.                                                      *)
(***************************************************************************)
CACHE_TTL == 10 * 60000
MIN_GAP_MS == 1500
GOOGLE_CACHE_TTL == 30 * 60000
EVICT_THRESHOLD == 500
MAX_RESULTS == 10
PROBE_LEN == 40
FULLTEXT_MAX == 5000

(***************************************************************************)
(* String helpers: JavaScript's String methods on sequences.               *)
(***************************************************************************)
Min(a, b) == IF a < b THEN a ELSE b
Max(a, b) == IF a > b THEN a ELSE b

\* s.slice(from, to) with 0-based, end-exclusive, non-negative arguments
Slice(s, from, to) ==
  LET f == Min(from, Len(s))
      t == Min(to, Len(s))
  IN IF t <= f THEN <<>> ELSE SubSeq(s, f + 1, t)

\* s.startsWith(p)
StartsWith(s, p) == Len(p) <= Len(s) /\ SubSeq(s, 1, Len(p)) = p

\* s.indexOf(p): 0-based index of the first occurrence, -1 when there is none
IndexOf(s, p) ==
  LET hits == {i \in 0..(Len(s) - Len(p)) : SubSeq(s, i + 1, i + Len(p)) = p}
  IN IF hits = {} THEN -1 ELSE CHOOSE i \in hits : \A j \in hits : i <= j

\* s.includes(p)
Includes(s, p) == IndexOf(s, p) # -1

\* s.toLowerCase() over the model's alphabet
LowerChar(c) ==
  CASE c = "A" -> "a"
    [] c = "G" -> "g"
    [] OTHER -> c
ToLowerCase(s) == [i \in 1..Len(s) |-> LowerChar(s[i])]

\* s.trim(): white space removed at both ends
RECURSIVE TrimStart(_)
TrimStart(s) ==
  IF s # <<>> /\ Head(s) = " " THEN TrimStart(Tail(s)) ELSE s
RECURSIVE TrimEnd(_)
TrimEnd(s) ==
  IF s # <<>> /\ s[Len(s)] = " " THEN TrimEnd(SubSeq(s, 1, Len(s) - 1)) ELSE s
Trim(s) == TrimEnd(TrimStart(s))

(***************************************************************************)
(* Cache keys of the two backends.                                         *)
(***************************************************************************)
DdgCacheKey(query) == ToLowerCase(Trim(query))
GoogleCacheKey(query) == <<"g", ":">> \o ToLowerCase(Trim(query))
CacheKeyOf(route, query) ==
  IF route = "ddg" THEN DdgCacheKey(query) ELSE GoogleCacheKey(query)
TtlOf(route) == IF route = "ddg" THEN CACHE_TTL ELSE GOOGLE_CACHE_TTL

\* Query strings the clients send: "a", " A" (same key as "a"), and to the
\* scraped backend also "g:a", which spells the SERP backend's prefix.
GoogleQueries == { <<"a">>, <<" ", "A">> }
DdgQueries == GoogleQueries \cup { <<"g", ":", "a">> }
Keys == {DdgCacheKey(q) : q \in DdgQueries} \cup {GoogleCacheKey(q) : q \in GoogleQueries}
Routes == {"ddg", "google"}
Headers == {"valid", "wrong"}


(***************************************************************************)
(* What the upstream services answer.  An href is a sequence of tokens, a  *)
(* title or snippet a sequence of characters.                              *)
(***************************************************************************)
HTTP == <<"http">>
AD_PATH == <<"duckduckgo.com/y.js">>
HrefA == <<"http", "s://a.com">>
HrefB == <<"http", "s://b.com">>
HrefAd == <<"http", "s://", "duckduckgo.com/y.js", "?ad">>
HrefRel == <<"/l/?uddg=a">>

Block(h, t, s) == [href |-> h, title |-> t, snippet |-> s]

\* The .result blocks of the upstream pages, in document order.
PageNone == <<>>
PageMixed ==
  << Block(HrefAd, <<"X">>, <<>>),
     Block(HrefRel, <<"R">>, <<>>),
     Block(HrefB, <<" ">>, <<>>),
     Block(HrefB, <<"B">>, <<>>),
     Block(HrefA, <<" ", "A", " ">>, <<" ", "s">>),
     Block(HrefA, <<"D">>, <<>>) >>

\* fetch() rejects ("throw"), or resolves with a status and a page: a result
\* page, or a rate-limit page that holds no result block.
DdgUpstream ==
  { [kind |-> "throw", status |-> 0, blocks |-> PageNone],
    [kind |-> "html", status |-> 200, blocks |-> PageMixed],
    [kind |-> "html", status |-> 429, blocks |-> PageNone] }

Organic(t, u, hasDesc, d) == [title |-> t, url |-> u, hasDesc |-> hasDesc, desc |-> d]
\* The organic list of the SERP API's answer: the API lists one page twice.
OrganicDup ==
  << Organic(<<"B">>, HrefB, FALSE, <<>>),
     Organic(<<"A">>, HrefA, TRUE, <<"s">>),
     Organic(<<"C">>, HrefB, FALSE, <<>>) >>

\* fetch()/resp.json() rejects ("throw"), or resolves with a status and a body.
GoogleUpstream ==
  { [kind |-> "throw", status |-> 0, hasMessage |-> FALSE, organic |-> <<>>],
    [kind |-> "json", status |-> 200, hasMessage |-> FALSE, organic |-> OrganicDup],
    [kind |-> "json", status |-> 200, hasMessage |-> FALSE, organic |-> <<>>],
    [kind |-> "json", status |-> 429, hasMessage |-> TRUE, organic |-> <<>>] }

(***************************************************************************)
(* The scraped backend's result loop and the SERP backend's mapping.       *)
(***************************************************************************)
RECURSIVE EachResult(_, _, _)
EachResult(blocks, results, seen) ==
  IF blocks = <<>> \/ Len(results) >= MAX_RESULTS THEN results
  ELSE LET el == Head(blocks)
           href == el.href
       IN IF ~StartsWith(href, HTTP) \/ Includes(href, AD_PATH) \/ href \in seen
          THEN EachResult(Tail(blocks), results, seen)
          ELSE LET title == Trim(el.title)
               IN IF title = <<>>
                  THEN EachResult(Tail(blocks), results, seen \cup {href})
                  ELSE EachResult(Tail(blocks),
                         Append(results,
                           [title |-> title, url |-> href, snippet |-> Trim(el.snippet)]),
                         seen \cup {href})

ParseDdg(blocks) == EachResult(blocks, <<>>, {})

MapOrganic(organic) ==
  LET top == Slice(organic, 0, MAX_RESULTS)
  IN [i \in 1..Len(top) |->
        [title |-> top[i].title, url |-> top[i].url,
         snippet |-> IF top[i].hasDesc THEN top[i].desc ELSE <<>>]]

(***************************************************************************)
(* Excerpt location.  A value that may be null is a set: {} is null, {v}   *)
(* is v; a field a JSON object may lack is a set in the same way.          *)
(***************************************************************************)
Found(title, pageUrl, text) ==
  [found |-> TRUE, title |-> title, url |-> pageUrl, extractedText |-> {text}, fullText |-> {}]
NotFound(title, pageUrl, text) ==
  [found |-> FALSE, title |-> title, url |-> pageUrl, extractedText |-> {}, fullText |-> {text}]

\* Mutant of ExtractFromText: the exact window ends charsAfter after the
\* excerpt's start, not after its end.
ExtractFromTextShortWindow(body, excerpt, charsBefore, charsAfter, title, pageUrl) ==
  IF Len(body) = 0 THEN {}
  ELSE LET index == IndexOf(body, excerpt)
       IN IF index = -1
          THEN LET short == Slice(excerpt, 0, PROBE_LEN)
                   fuzzy == IndexOf(body, short)
               IN IF fuzzy = -1
                  THEN {NotFound(title, pageUrl, Slice(body, 0, FULLTEXT_MAX))}
                  ELSE LET start == Max(0, fuzzy - charsBefore)
                           end == Min(Len(body), fuzzy + Len(short) + charsAfter)
                       IN {Found(title, pageUrl, Slice(body, start, end))}
          ELSE LET start == Max(0, index - charsBefore)
                   end == Min(Len(body), index + charsAfter)
               IN {Found(title, pageUrl, Slice(body, start, end))}

\* Mutant of ExtractFromText: the fuzzy window is sized from the excerpt,
\* not from its 40-character probe.
ExtractFromTextExcerptSized(body, excerpt, charsBefore, charsAfter, title, pageUrl) ==
  IF Len(body) = 0 THEN {}
  ELSE LET index == IndexOf(body, excerpt)
       IN IF index = -1
          THEN LET short == Slice(excerpt, 0, PROBE_LEN)
                   fuzzy == IndexOf(body, short)
               IN IF fuzzy = -1
                  THEN {NotFound(title, pageUrl, Slice(body, 0, FULLTEXT_MAX))}
                  ELSE LET start == Max(0, fuzzy - charsBefore)
                           end == Min(Len(body), fuzzy + Len(excerpt) + charsAfter)
                       IN {Found(title, pageUrl, Slice(body, start, end))}
          ELSE LET start == Max(0, index - charsBefore)
                   end == Min(Len(body), index + Len(excerpt) + charsAfter)
               IN {Found(title, pageUrl, Slice(body, start, end))}

\* Mutant of ExtractFromText: NotFound carries the whole body text.
ExtractFromTextWholeBody(body, excerpt, charsBefore, charsAfter, title, pageUrl) ==
  IF Len(body) = 0 THEN {}
  ELSE LET index == IndexOf(body, excerpt)
       IN IF index = -1
          THEN LET short == Slice(excerpt, 0, PROBE_LEN)
                   fuzzy == IndexOf(body, short)
               IN IF fuzzy = -1
                  THEN {NotFound(title, pageUrl, body)}
                  ELSE LET start == Max(0, fuzzy - charsBefore)
                           end == Min(Len(body), fuzzy + Len(short) + charsAfter)
                       IN {Found(title, pageUrl, Slice(body, start, end))}
          ELSE LET start == Max(0, index - charsBefore)
                   end == Min(Len(body), index + Len(excerpt) + charsAfter)
               IN {Found(title, pageUrl, Slice(body, start, end))}

ExtractFromText(body, excerpt, charsBefore, charsAfter, title, pageUrl) ==
  IF Len(body) = 0 THEN {}
  ELSE LET index == IndexOf(body, excerpt)
       IN IF index = -1
          THEN LET short == Slice(excerpt, 0, PROBE_LEN)
                   fuzzy == IndexOf(body, short)
               IN IF fuzzy = -1
                  THEN {NotFound(title, pageUrl, Slice(body, 0, FULLTEXT_MAX))}
                  ELSE LET start == Max(0, fuzzy - charsBefore)
                           end == Min(Len(body), fuzzy + Len(short) + charsAfter)
                       IN {Found(title, pageUrl, Slice(body, start, end))}
          ELSE LET start == Max(0, index - charsBefore)
                   end == Min(Len(body), index + Len(excerpt) + charsAfter)
               IN {Found(title, pageUrl, Slice(body, start, end))}

\* extractFromText(...) || { found: false, title, url, fullText: '' }
OrEmptyNotFound(result, title, pageUrl) ==
  IF result # {} THEN result ELSE {NotFound(title, pageUrl, <<>>)}

\* What a fetched page holds once parsed: its title, the text of its first
\* content landmark (empty: none) and the text of its body.
\* kind: "throw" fetch rejects; "status" a non-success status; "textThrow"
\* reading the body rejects; "ok" a page.
Fetched(kind, title, main, bodyText) ==
  [kind |-> kind, title |-> title, main |-> main, bodyText |-> bodyText]

TextHit == <<"t", "h", "e", " ", "f", "o", "x", " ", "r", "u", "n", "s">>
TextMiss == <<"n", "o", " ", "c", "a", "t">>
Excerpt == <<"f", "o", "x">>

FetchOutcomes ==
  { Fetched("throw", <<>>, <<>>, <<>>),
    Fetched("status", <<>>, <<>>, <<>>),
    Fetched("textThrow", <<>>, <<>>, <<>>),
    Fetched("ok", <<" ", "T">>, TextHit, <<"x">>),
    Fetched("ok", <<"T">>, <<>>, <<" ">> \o TextMiss),
    Fetched("ok", <<>>, <<>>, <<" ">>) }

\* ($('article, main, [role="main"]').first().text() || $('body').text()).trim()
BodyOf(page) == Trim(IF page.main # <<>> THEN page.main ELSE page.bodyText)

\* extractFast once its fetch has answered with page (kind "throw", "status"
\* or "ok"): null unless the excerpt is found.
ExtractFast(page, url, excerpt, charsBefore, charsAfter) ==
  IF page.kind # "ok" THEN {}
  ELSE LET result == ExtractFromText(BodyOf(page), excerpt, charsBefore, charsAfter,
                                     Trim(page.title), url)
       IN {r \in result : r.found}

(***************************************************************************)
(* State of the search service.                                            *)
(***************************************************************************)
VARIABLES
  clock,         \* Date.now()
  ticks,         \* clock advances so far (bounds the behaviour)
  searchCache,   \* searchCache: key -> entry, for the keys of the model's queries
  bulk,          \* searchCache's entries under all other keys: how many, stored when
  lastSearchTs,  \* lastSearchTs
  lastDispatch,  \* when the scraped backend last dispatched upstream (0: never)
  req,           \* the search requests: where each handler stands, and its response
  sessions,      \* bm.sessions: userId -> the context of its session (0: no entry)
  contexts,      \* the browsing contexts, each named by the call whose getSession made it
  pages,         \* the pages: a session's page, and the page each extraction opens
  call,          \* the /extract and /health requests
  batch,         \* the /extract-batch request
  sample,        \* one call of extractFromText on its own: arguments and results
  closed,        \* the contexts on which context.close() has been called
  destroying     \* bm.destroy(userId) in flight: userId -> the context it closes (0: none)

searchVars == <<clock, ticks, searchCache, bulk, lastSearchTs, lastDispatch, req>>
poolVars == <<sessions, contexts, pages>>
extractVars == <<sessions, contexts, pages, call>>
vars == <<searchVars, extractVars, batch, sample, closed, destroying>>
notSearch == <<sessions, contexts, pages, call, batch, sample, closed, destroying>>
notExtract == <<searchVars, batch, sample, closed, destroying>>
notBatch == <<searchVars, extractVars, sample, closed, destroying>>

ReqIds == 1..MaxReqs

\* by: the request whose store wrote the entry (the handlers never read it)
NoEntry == [present |-> FALSE, results |-> <<>>, ts |-> 0, by |-> 0]
NoResponse == [kind |-> "none", status |-> 0, results |-> <<>>, cached |-> FALSE, error |-> ""]

\* res.json({ results, cached: true }) / res.json({ results }) / res.status(s).json({ error })
JsonResults(results, cached) ==
  [kind |-> "results", status |-> 200, results |-> results, cached |-> cached, error |-> ""]
JsonError(status, message) ==
  [kind |-> "error", status |-> status, results |-> <<>>, cached |-> FALSE, error |-> message]

\* A request before it arrives.  The fields from upstream on record what the
\* handler did and saw, for the properties; the handlers never read them:
\*   upstream    upstream calls dispatched
\*   upStatus    the upstream's HTTP status
\*   seenAge     the age of the entry the lookup found (-1: no entry)
\*   servedFrom  the request whose stored entry this response was built from
\*   stored      the handler wrote a cache entry
\*   doneAt      when the handler answered with results fetched upstream
IdleReq ==
  [pc |-> "idle", route |-> "none", hdr |-> "none", key |-> <<>>, wakeAt |-> 0,
   upstream |-> 0, upStatus |-> 0, seenAge |-> -1, servedFrom |-> 0, stored |-> FALSE,
   doneAt |-> 0, resp |-> NoResponse]

\* What the lookup found, recorded
Looked(r, cached) ==
  [r EXCEPT !.seenAge = IF cached.present THEN clock - cached.ts ELSE -1]

\* Requests take the ids in order of arrival.
CanArrive(i) == req[i].pc = "idle" /\ (IF i = 1 THEN TRUE ELSE req[i - 1].pc # "idle")

\* Mutant of Fresh: every lookup compares with the scraped backend's TTL.
FreshShortTtl(cached, now, ttl) == cached.present /\ now - cached.ts < CACHE_TTL

\* Mutant of Fresh: an entry exactly TTL old still counts as fresh.
FreshInclusive(cached, now, ttl) == cached.present /\ now - cached.ts <= ttl

\* cached && Date.now() - cached.ts < TTL
Fresh(cached, now, ttl) == cached.present /\ now - cached.ts < ttl

\* Mutant of ThrottleWait: the gate asks for twice the gap.
ThrottleWaitDouble(now, last) == Max(0, 2 * MIN_GAP_MS - (now - last))

\* Math.max(0, MIN_GAP_MS - (now - lastSearchTs))
ThrottleWait(now, last) == Max(0, MIN_GAP_MS - (now - last))

\* searchCache.set(key, { results, ts })
CacheSet(cache, key, results, now, by) ==
  [cache EXCEPT ![key] = [present |-> TRUE, results |-> results, ts |-> now, by |-> by]]

\* searchCache.size
SizeOf(cache, b) == Cardinality({k \in Keys : cache[k].present}) + b.n

\* The sweep: every entry stored before cutoff is deleted.
Sweep(cache, cutoff) ==
  [k \in Keys |-> IF cache[k].present /\ cache[k].ts < cutoff THEN NoEntry ELSE cache[k]]
SweepBulk(b, cutoff) == IF b.n > 0 /\ b.ts < cutoff THEN [n |-> 0, ts |-> 0] ELSE b

(***************************************************************************)
(* The auth middleware: the first handler of every request.                *)
(***************************************************************************)
AuthOk(hdr) == hdr = "valid"

Unauthorized == JsonError(401, "unauthorized")

(***************************************************************************)
(* A search request that the middleware rejects: 401, and no handler runs. *)
(***************************************************************************)
SearchUnauthorized(i, route, hdr) ==
  /\ CanArrive(i)
  /\ ~AuthOk(hdr)
  /\ req' = [req EXCEPT ![i] =
       [IdleReq EXCEPT !.pc = "done", !.route = route, !.hdr = hdr, !.resp = Unauthorized]]
  /\ UNCHANGED <<clock, ticks, searchCache, bulk, lastSearchTs, lastDispatch>>
  /\ UNCHANGED notSearch

(***************************************************************************)
(* POST /search/duckduckgo, from the request to its first await: the cache *)
(* lookup, and on a miss the throttle and the upstream fetch.              *)
(***************************************************************************)
DdgArrive(i, query) ==
  /\ CanArrive(i)
  /\ LET cacheKey == DdgCacheKey(query)
         cached == searchCache[cacheKey]
         now == clock
         wait == ThrottleWait(now, lastSearchTs)
         r == Looked([IdleReq EXCEPT !.route = "ddg", !.hdr = "valid", !.key = cacheKey],
                     cached)
     IN IF Fresh(cached, clock, CACHE_TTL)
        THEN /\ req' = [req EXCEPT ![i] =
                  [r EXCEPT !.pc = "done", !.servedFrom = cached.by,
                            !.resp = JsonResults(cached.results, TRUE)]]
             /\ UNCHANGED <<lastSearchTs, lastDispatch>>
        ELSE IF wait > 0
        THEN /\ req' = [req EXCEPT ![i] = [r EXCEPT !.pc = "sleep", !.wakeAt = now + wait]]
             /\ UNCHANGED <<lastSearchTs, lastDispatch>>
        ELSE /\ lastSearchTs' = clock
             /\ lastDispatch' = clock
             /\ req' = [req EXCEPT ![i] = [r EXCEPT !.pc = "fetch", !.upstream = 1]]
  /\ UNCHANGED <<clock, ticks, searchCache, bulk>>
  /\ UNCHANGED notSearch

\* The throttle's timer fires (no earlier than asked): the handler stamps
\* lastSearchTs and dispatches the upstream fetch.
DdgWake(i) ==
  /\ req[i].pc = "sleep"
  /\ clock >= req[i].wakeAt
  /\ lastSearchTs' = clock
  /\ lastDispatch' = clock
  /\ req' = [req EXCEPT ![i].pc = "fetch", ![i].wakeAt = 0,
                        ![i].upstream = req[i].upstream + 1]
  /\ UNCHANGED <<clock, ticks, searchCache, bulk>>
  /\ UNCHANGED notSearch

\* The upstream answers: parse, store, sweep, respond (or the catch's 500).
DdgReturn(i, up) ==
  /\ req[i].pc = "fetch"
  /\ req[i].route = "ddg"
  /\ IF up.kind = "throw"
     THEN /\ req' = [req EXCEPT ![i].pc = "done", ![i].resp = JsonError(500, "err")]
          /\ UNCHANGED <<searchCache, bulk>>
     ELSE LET results == ParseDdg(up.blocks)
              set == CacheSet(searchCache, req[i].key, results, clock, i)
              evict == SizeOf(set, bulk) > EVICT_THRESHOLD
              cutoff == clock - CACHE_TTL
          IN /\ searchCache' = IF evict THEN Sweep(set, cutoff) ELSE set
             /\ bulk' = IF evict THEN SweepBulk(bulk, cutoff) ELSE bulk
             /\ req' = [req EXCEPT ![i].pc = "done", ![i].upStatus = up.status,
                          ![i].stored = TRUE, ![i].doneAt = clock,
                          ![i].resp = JsonResults(results, FALSE)]
  /\ UNCHANGED <<clock, ticks, lastSearchTs, lastDispatch>>
  /\ UNCHANGED notSearch

(***************************************************************************)
(* POST /search/google: the lookup and the upstream fetch, then the answer.*)
(***************************************************************************)
GoogleArrive(i, query) ==
  /\ CanArrive(i)
  /\ LET cacheKey == GoogleCacheKey(query)
         cached == searchCache[cacheKey]
         r == Looked([IdleReq EXCEPT !.route = "google", !.hdr = "valid", !.key = cacheKey],
                     cached)
     IN IF Fresh(cached, clock, GOOGLE_CACHE_TTL)
        THEN req' = [req EXCEPT ![i] =
               [r EXCEPT !.pc = "done", !.servedFrom = cached.by,
                         !.resp = JsonResults(cached.results, TRUE)]]
        ELSE req' = [req EXCEPT ![i] = [r EXCEPT !.pc = "fetch", !.upstream = 1]]
  /\ UNCHANGED <<clock, ticks, searchCache, bulk, lastSearchTs, lastDispatch>>
  /\ UNCHANGED notSearch

\* Mutant of GoogleReturn: the store is not guarded by results.length > 0.
GoogleReturnStoreEmpty(i, up) ==
  /\ req[i].pc = "fetch"
  /\ req[i].route = "google"
  /\ IF up.kind = "throw"
     THEN /\ req' = [req EXCEPT ![i].pc = "done", ![i].resp = JsonError(500, "err")]
          /\ UNCHANGED searchCache
     ELSE IF up.status # 200
     THEN /\ req' = [req EXCEPT ![i].pc = "done", ![i].upStatus = up.status,
                       ![i].resp = JsonError(up.status,
                          IF up.hasMessage THEN "message" ELSE "Oxylabs SERP error")]
          /\ UNCHANGED searchCache
     ELSE LET results == MapOrganic(up.organic)
          IN /\ searchCache' = CacheSet(searchCache, req[i].key, results, clock, i)
             /\ req' = [req EXCEPT ![i].pc = "done", ![i].upStatus = up.status,
                          ![i].stored = TRUE, ![i].doneAt = clock,
                          ![i].resp = JsonResults(results, FALSE)]
  /\ UNCHANGED <<clock, ticks, bulk, lastSearchTs, lastDispatch>>
  /\ UNCHANGED notSearch

GoogleReturn(i, up) ==
  /\ req[i].pc = "fetch"
  /\ req[i].route = "google"
  /\ IF up.kind = "throw"
     THEN /\ req' = [req EXCEPT ![i].pc = "done", ![i].resp = JsonError(500, "err")]
          /\ UNCHANGED searchCache
     ELSE IF up.status # 200
     THEN /\ req' = [req EXCEPT ![i].pc = "done", ![i].upStatus = up.status,
                       ![i].resp = JsonError(up.status,
                          IF up.hasMessage THEN "message" ELSE "Oxylabs SERP error")]
          /\ UNCHANGED searchCache
     ELSE LET results == MapOrganic(up.organic)
          IN IF Len(results) > 0
             THEN /\ searchCache' = CacheSet(searchCache, req[i].key, results, clock, i)
                  /\ req' = [req EXCEPT ![i].pc = "done", ![i].upStatus = up.status,
                               ![i].stored = TRUE, ![i].doneAt = clock,
                          ![i].resp = JsonResults(results, FALSE)]
             ELSE /\ req' = [req EXCEPT ![i].pc = "done", ![i].upStatus = up.status,
                               ![i].doneAt = clock,
                               ![i].resp = JsonResults(results, FALSE)]
                  /\ UNCHANGED searchCache
  /\ UNCHANGED <<clock, ticks, bulk, lastSearchTs, lastDispatch>>
  /\ UNCHANGED notSearch

(***************************************************************************)
(* Time passes: by just under the scraped backend's TTL, or by the rest of *)
(* the SERP API backend's TTL, so that an entry can be one millisecond     *)
(* short of the former and exactly as old as the latter.                   *)
(***************************************************************************)
TickSteps == {CACHE_TTL - 1, GOOGLE_CACHE_TTL - CACHE_TTL + 1}

Tick(d) ==
  /\ ticks < MaxTicks
  /\ clock' = clock + d
  /\ ticks' = ticks + 1
  /\ UNCHANGED <<searchCache, bulk, lastSearchTs, lastDispatch, req>>
  /\ UNCHANGED notSearch

(***************************************************************************)
(* The search service: cache, throttle and the two backends.  The map      *)
(* starts one entry short of the eviction threshold, and the scraped       *)
(* backend has either never dispatched or has just dispatched.             *)
(***************************************************************************)
SearchInit ==
  /\ clock = StartTime
  /\ ticks = 0
  /\ searchCache = [k \in Keys |-> NoEntry]
  /\ bulk = [n |-> EVICT_THRESHOLD - 1, ts |-> StartTime]
  /\ lastSearchTs \in {0, StartTime}
  /\ lastDispatch = lastSearchTs
  /\ req = [i \in ReqIds |-> IdleReq]

(***************************************************************************)
(* State of the session pool and of the extraction requests.               *)
(***************************************************************************)
UserIds == {"u1", "u2"}
CallIds == 1..MaxCalls
ExtractRoutes == {"extract", "health"}
Url == "http://site/page"
CharsBefore == 2
CharsAfter == 1

NoReply == [kind |-> "none", status |-> 0, result |-> {}, error |-> "", sessions |-> -1]
\* res.json(result) / res.status(s).json({ error }) / res.json({ ok: true, sessions })
ReplyResult(r) == [kind |-> "result", status |-> 200, result |-> {r}, error |-> "", sessions |-> -1]
ReplyError(status, message) ==
  [kind |-> "error", status |-> status, result |-> {}, error |-> message, sessions |-> -1]
ReplyHealth(n) == [kind |-> "health", status |-> 200, result |-> {}, error |-> "", sessions |-> n]

\* A request before it arrives.
\*   httpResp  extractFast's response while its body is being read ({}: none)
\*   browser   the call has entered the browser path (recorded, never read)
\*   ctx, page the call's context and page (0: none yet)
\*   pending   what the try block returned ({}: nothing), failed: it threw
IdleCall ==
  [pc |-> "idle", route |-> "none", hdr |-> "none", userId |-> "none",
   httpResp |-> {}, browser |-> FALSE, ctx |-> 0, page |-> 0,
   pending |-> {}, failed |-> FALSE, resp |-> NoReply]

CallCanArrive(i) == call[i].pc = "idle" /\ (IF i = 1 THEN TRUE ELSE call[i - 1].pc # "idle")

\* User identifiers are named in the order in which they first appear.
UserCanAppear(userId) ==
  userId = "u1" \/ \E j \in CallIds : call[j].userId = "u1"

\* The browser's objects have no name in the code; the model names a context
\* by the call that created it, a session's page by its context, and an
\* extraction's page by its call.
PageIds == 1..(2 * MaxCalls)
SessionPageOf(c) == c
PageOfCall(i) == MaxCalls + i
NoContext == [made |-> FALSE, user |-> "none"]
NoPage == [made |-> FALSE, ctx |-> 0, owner |-> 0, open |-> FALSE]

\* What page.evaluate returns: it rejects, or gives the rendered text.
Rendered(kind, title, body) == [kind |-> kind, title |-> title, body |-> body]
EvalOutcomes ==
  { Rendered("throw", <<>>, <<>>),
    Rendered("ok", <<"T">>, TextHit),
    Rendered("ok", <<"T">>, TextMiss),
    Rendered("ok", <<"T">>, <<>>) }

\* this.sessions.size
SessionCount == Cardinality({u \in UserIds : sessions[u] # 0})

(***************************************************************************)
(* The middleware rejects a request to any route: 401, no handler runs.    *)
(***************************************************************************)
ExtractUnauthorized(i, route, hdr) ==
  /\ CallCanArrive(i)
  /\ ~AuthOk(hdr)
  /\ call' = [call EXCEPT ![i] =
       [IdleCall EXCEPT !.pc = "done", !.route = route, !.hdr = hdr,
                        !.resp = ReplyError(401, "unauthorized")]]
  /\ UNCHANGED poolVars
  /\ UNCHANGED notExtract

\* GET /health, past the middleware
Health(i) ==
  /\ CallCanArrive(i)
  /\ call' = [call EXCEPT ![i] =
       [IdleCall EXCEPT !.pc = "done", !.route = "health", !.hdr = "valid",
                        !.resp = ReplyHealth(SessionCount)]]
  /\ UNCHANGED poolVars
  /\ UNCHANGED notExtract

(***************************************************************************)
(* bm.getSession(userId) up to its first await, as extractOneUrl calls it: *)
(* the session of the map, with which extractOneUrl asks for its page, or  *)
(* the start of a new context.                                             *)
(***************************************************************************)
GetSession(c) ==
  IF sessions[c.userId] # 0
  THEN [c EXCEPT !.pc = "newPage", !.browser = TRUE, !.httpResp = {},
                 !.ctx = sessions[c.userId]]
  ELSE [c EXCEPT !.pc = "newContext", !.browser = TRUE, !.httpResp = {}]

(***************************************************************************)
(* POST /extract: extractOneUrl, one action per await.                     *)
(***************************************************************************)
\* The handler starts extractFast, which starts its fetch.
ExtractArrive(i, userId) ==
  /\ CallCanArrive(i)
  /\ UserCanAppear(userId)
  /\ call' = [call EXCEPT ![i] =
       [IdleCall EXCEPT !.pc = "fast", !.route = "extract", !.hdr = "valid",
                        !.userId = userId]]
  /\ UNCHANGED poolVars
  /\ UNCHANGED notExtract

\* extractFast's fetch answers.  A rejected fetch or a non-success status
\* makes extractFast return null, and extractOneUrl enters the browser path;
\* otherwise extractFast reads the body.
FetchDone(i, fetched) ==
  /\ call[i].pc = "fast"
  /\ call' = [call EXCEPT ![i] =
       IF fetched.kind \in {"throw", "status"}
       THEN GetSession(call[i])
       ELSE [call[i] EXCEPT !.pc = "text", !.httpResp = {fetched}]]
  /\ UNCHANGED poolVars
  /\ UNCHANGED notExtract

\* The body is read (or reading it throws: 500).  extractFast returns the
\* result if the excerpt is found, else null, which enters the browser path.
TextDone(i) ==
  /\ call[i].pc = "text"
  /\ LET fetched == CHOOSE f \in call[i].httpResp : TRUE
         fast == ExtractFast(fetched, Url, Excerpt, CharsBefore, CharsAfter)
     IN call' = [call EXCEPT ![i] =
          IF fetched.kind = "textThrow"
          THEN [call[i] EXCEPT !.pc = "done", !.httpResp = {},
                               !.resp = ReplyError(500, "err")]
          ELSE IF fast # {}
          THEN [call[i] EXCEPT !.pc = "done", !.httpResp = {},
                               !.resp = ReplyResult(CHOOSE r \in fast : TRUE)]
          ELSE GetSession(call[i])]
  /\ UNCHANGED poolVars
  /\ UNCHANGED notExtract

\* getSession: browser.newContext() has created the context.
NewContextDone(i) ==
  /\ call[i].pc = "newContext"
  /\ contexts' = [contexts EXCEPT ![i] = [made |-> TRUE, user |-> call[i].userId]]
  /\ call' = [call EXCEPT ![i].pc = "addInitScript", ![i].ctx = i]
  /\ UNCHANGED <<sessions, pages>>
  /\ UNCHANGED notExtract

\* getSession: context.addInitScript() is done; the session's page is asked for.
AddInitScriptDone(i) ==
  /\ call[i].pc = "addInitScript"
  /\ call' = [call EXCEPT ![i].pc = "sessionPage"]
  /\ UNCHANGED poolVars
  /\ UNCHANGED notExtract

\* getSession: context.newPage() has opened the session's page.
SessionPageDone(i) ==
  /\ call[i].pc = "sessionPage"
  /\ pages' = [pages EXCEPT ![SessionPageOf(call[i].ctx)] =
                 [made |-> TRUE, ctx |-> call[i].ctx, owner |-> 0, open |-> TRUE]]
  /\ call' = [call EXCEPT ![i].pc = "route"]
  /\ UNCHANGED <<sessions, contexts>>
  /\ UNCHANGED notExtract

\* getSession: context.route() is done; the session is put in the map and
\* returned, and extractOneUrl asks its context for a page.
RouteDone(i) ==
  /\ call[i].pc = "route"
  /\ sessions' = [sessions EXCEPT ![call[i].userId] = call[i].ctx]
  /\ call' = [call EXCEPT ![i].pc = "newPage"]
  /\ UNCHANGED <<contexts, pages>>
  /\ UNCHANGED notExtract

\* The context is being closed by a destroy() that has not finished.
Closing(c) == \E u \in UserIds : destroying[u] = c

\* context.newPage() has opened the extraction's page and page.goto starts;
\* or the context was closed and newPage rejects, outside the try block, so
\* the route's catch answers 500.  While the context is being closed either
\* can happen.
NewPageDone(i) ==
  /\ call[i].pc = "newPage"
  /\ \/ /\ call[i].ctx \notin closed \/ Closing(call[i].ctx)
        /\ pages' = [pages EXCEPT ![PageOfCall(i)] =
                       [made |-> TRUE, ctx |-> call[i].ctx, owner |-> i, open |-> TRUE]]
        /\ call' = [call EXCEPT ![i].pc = "goto", ![i].page = PageOfCall(i)]
     \/ /\ call[i].ctx \in closed
        /\ call' = [call EXCEPT ![i].pc = "done", ![i].failed = TRUE,
                                ![i].resp = ReplyError(500, "err")]
        /\ UNCHANGED pages
  /\ UNCHANGED <<sessions, contexts>>
  /\ UNCHANGED notExtract

\* Mutant of GotoDone: no finally block, a failed navigation answers 500 at
\* once and the page stays open.
GotoDoneNoFinally(i, ok) ==
  /\ call[i].pc = "goto"
  /\ call' = IF ok THEN [call EXCEPT ![i].pc = "waitForFunction"]
             ELSE [call EXCEPT ![i].pc = "done", ![i].failed = TRUE,
                               ![i].resp = ReplyError(500, "err")]
  /\ UNCHANGED poolVars
  /\ UNCHANGED notExtract

\* page.goto returns, or throws: the finally block starts page.close().
GotoDone(i, ok) ==
  /\ call[i].pc = "goto"
  /\ call' = IF ok THEN [call EXCEPT ![i].pc = "waitForFunction"]
             ELSE [call EXCEPT ![i].pc = "close", ![i].failed = TRUE]
  /\ UNCHANGED poolVars
  /\ UNCHANGED notExtract

\* page.waitForFunction returns or times out (caught); page.evaluate starts.
WaitDone(i) ==
  /\ call[i].pc = "waitForFunction"
  /\ call' = [call EXCEPT ![i].pc = "evaluate"]
  /\ UNCHANGED poolVars
  /\ UNCHANGED notExtract

\* page.evaluate returns or throws; the excerpt is located; the finally
\* block starts page.close().
EvaluateDone(i, out) ==
  /\ call[i].pc = "evaluate"
  /\ call' =
       IF out.kind = "throw"
       THEN [call EXCEPT ![i].pc = "close", ![i].failed = TRUE]
       ELSE LET result == ExtractFromText(out.body, Excerpt, CharsBefore, CharsAfter,
                                          out.title, Url)
            IN [call EXCEPT ![i].pc = "close",
                  ![i].pending = OrEmptyNotFound(result, out.title, Url)]
  /\ UNCHANGED poolVars
  /\ UNCHANGED notExtract

\* page.close() is done: extractOneUrl returns or rethrows, the handler answers.
CloseDone(i) ==
  /\ call[i].pc = "close"
  /\ pages' = [pages EXCEPT ![call[i].page].open = FALSE]
  /\ call' = [call EXCEPT ![i].pc = "done",
                ![i].resp = IF call[i].failed THEN ReplyError(500, "err")
                            ELSE ReplyResult(CHOOSE r \in call[i].pending : TRUE)]
  /\ UNCHANGED <<sessions, contexts>>
  /\ UNCHANGED notExtract

(***************************************************************************)
(* BrowserManager.destroy(userId): from the call to its await, then from   *)
(* the end of context.close() to the return.  closed holds the contexts    *)
(* whose close() has been called; destroying[userId] is the context whose  *)
(* close() a destroy of userId awaits (0: none).                           *)
(***************************************************************************)
\* const s = this.sessions.get(userId); if (s) context.close() starts.  For a
\* userId without a session the call returns at once.
DestroyStart(userId) ==
  /\ destroying[userId] = 0
  /\ IF sessions[userId] # 0
     THEN /\ closed' = closed \cup {sessions[userId]}
          /\ destroying' = [destroying EXCEPT ![userId] = sessions[userId]]
     ELSE UNCHANGED <<closed, destroying>>
  /\ UNCHANGED <<searchVars, extractVars, batch, sample>>

\* context.close() is done, and with it every page of the context is closed;
\* this.sessions.delete(userId).
DestroyDone(userId) ==
  /\ destroying[userId] # 0
  /\ pages' = [p \in PageIds |->
                 IF pages[p].made /\ pages[p].ctx = destroying[userId]
                 THEN [pages[p] EXCEPT !.open = FALSE] ELSE pages[p]]
  /\ sessions' = [sessions EXCEPT ![userId] = 0]
  /\ destroying' = [destroying EXCEPT ![userId] = 0]
  /\ UNCHANGED <<searchVars, contexts, call, batch, sample, closed>>

PoolInit ==
  /\ sessions = [u \in UserIds |-> 0]
  /\ contexts = [c \in CallIds |-> NoContext]
  /\ pages = [p \in PageIds |-> NoPage]

ExtractInit ==
  /\ PoolInit
  /\ call = [i \in CallIds |-> IdleCall]

(***************************************************************************)
(* POST /extract-batch.                                                    *)
(***************************************************************************)
BatchReplyNone == [kind |-> "none", status |-> 0, results |-> <<>>, error |-> ""]
BatchReplyResults(results) ==
  [kind |-> "results", status |-> 200, results |-> results, error |-> ""]
BatchReplyError(status, message) ==
  [kind |-> "error", status |-> status, results |-> <<>>, error |-> message]

NoBatch ==
  [pc |-> "idle", hdr |-> "none", items |-> <<>>, fetched |-> <<>>, settled |-> <<>>,
   resp |-> BatchReplyNone]

\* The request's items: item k asks for url k; the first item brings its own
\* charsBefore, the others leave it to the request.
Item(k) ==
  [url |-> k, excerpt |-> Excerpt,
   charsBefore |-> IF k = 1 THEN {0} ELSE {}, charsAfter |-> {}]
ItemsOf(n) == [k \in 1..n |-> Item(k)]

\* a ?? b
Coalesce(a, b) == IF a # {} THEN CHOOSE x \in a : TRUE ELSE b

\* One promise of Promise.allSettled: status "pending", "fulfilled" (with
\* value, {} being null) or "rejected".
Pending == [status |-> "pending", value |-> {}]
NotFetched == Fetched("pending", <<>>, <<>>, <<>>)

\* extractFast for one item, from its fetch's answer to its settlement
SettleItem(item, fetched, charsBefore, charsAfter) ==
  IF fetched.kind = "textThrow"
  THEN [status |-> "rejected", value |-> {}]
  ELSE [status |-> "fulfilled",
        value |-> ExtractFast(fetched, item.url, item.excerpt,
                              Coalesce(item.charsBefore, charsBefore),
                              Coalesce(item.charsAfter, charsAfter))]

\* settled.map(r => fulfilled && r.value ? r.value : null).filter(Boolean)
RECURSIVE KeepValues(_)
KeepValues(settled) ==
  IF settled = <<>> THEN <<>>
  ELSE LET r == Head(settled)
       IN IF r.status = "fulfilled" /\ r.value # {}
          THEN <<CHOOSE v \in r.value : TRUE>> \o KeepValues(Tail(settled))
          ELSE KeepValues(Tail(settled))

\* Mutant of BatchReply: Promise.all in place of Promise.allSettled, so that
\* one rejected item rejects the batch.
BatchReplyAll(settled) ==
  IF \E k \in DOMAIN settled : settled[k].status = "rejected"
  THEN BatchReplyError(500, "err")
  ELSE BatchReplyResults(KeepValues(settled))

\* The handler's answer once every promise has settled
BatchReply(settled) == BatchReplyResults(KeepValues(settled))

BatchUnauthorized(hdr, n) ==
  /\ batch.pc = "idle"
  /\ ~AuthOk(hdr)
  /\ batch' = [NoBatch EXCEPT !.pc = "done", !.hdr = hdr, !.items = ItemsOf(n),
                              !.resp = BatchReplyError(401, "unauthorized")]
  /\ UNCHANGED notBatch

\* The handler maps the items to extractFast calls: every fetch starts.
BatchArrive(n) ==
  /\ batch.pc = "idle"
  /\ batch' = [NoBatch EXCEPT !.pc = "running", !.hdr = "valid", !.items = ItemsOf(n),
                 !.fetched = [k \in 1..n |-> NotFetched],
                 !.settled = [k \in 1..n |-> Pending]]
  /\ UNCHANGED notBatch

\* The extractFast call of item k settles.
BatchItemDone(k, fetched) ==
  /\ batch.pc = "running"
  /\ k \in DOMAIN batch.settled
  /\ batch.settled[k].status = "pending"
  /\ batch' = [batch EXCEPT
       !.fetched[k] = fetched,
       !.settled[k] = SettleItem(batch.items[k], fetched, CharsBefore, CharsAfter)]
  /\ UNCHANGED notBatch

\* Promise.allSettled resolves: the handler answers.
BatchRespond ==
  /\ batch.pc = "running"
  /\ \A k \in DOMAIN batch.settled : batch.settled[k].status # "pending"
  /\ batch' = [batch EXCEPT !.pc = "done", !.resp = BatchReply(batch.settled)]
  /\ UNCHANGED notBatch

(***************************************************************************)
(* extractFromText on its own: one call with arguments drawn from bounded  *)
(* sets, then the browser path's fallback for a null result.  Texts are    *)
(* over two letters: short ones, ones built around a 40-character probe,   *)
(* and one longer than NotFound's 5000 characters.                         *)
(***************************************************************************)
\* No call of extractFromText on its own
NoSample ==
  [pc |-> "none", body |-> <<>>, excerpt |-> <<>>, charsBefore |-> 0, charsAfter |-> 0,
   result |-> {}, final |-> {}]

MaxPad == 2
Letters == {"a", "b"}
Pads == UNION {[1..n -> Letters] : n \in 0..MaxPad}
Probe == [i \in 1..PROBE_LEN |-> IF i % 2 = 1 THEN "a" ELSE "b"]
LongBody == [i \in 1..FULLTEXT_MAX |-> "a"] \o <<"a">>
Bodies ==
  {pre \o mid \o post : pre \in Pads, mid \in {<<>>, Probe}, post \in Pads} \cup {LongBody}
Excerpts == {mid \o tail : mid \in {<<>>, Probe}, tail \in Pads}
SampleTitle == <<"T">>

SampleInit ==
  sample \in {[NoSample EXCEPT !.pc = "args", !.body = b, !.excerpt = e,
                               !.charsBefore = cb, !.charsAfter = ca] :
                b \in Bodies, e \in Excerpts, cb \in 0..CharsBefore, ca \in 0..CharsAfter}

\* extractFromText(body, excerpt, charsBefore, charsAfter, title, pageUrl)
ExtractFromTextReturn ==
  /\ sample.pc = "args"
  /\ sample' = [sample EXCEPT !.pc = "returned",
                  !.result = ExtractFromText(sample.body, sample.excerpt,
                                             sample.charsBefore, sample.charsAfter,
                                             SampleTitle, Url)]
  /\ UNCHANGED <<searchVars, extractVars, batch, closed, destroying>>

\* extractOneUrl's browser path returns the result, or NotFound for null.
ExtractOneUrlReturn ==
  /\ sample.pc = "returned"
  /\ sample' = [sample EXCEPT !.pc = "final",
                  !.final = OrEmptyNotFound(sample.result, SampleTitle, Url)]
  /\ UNCHANGED <<searchVars, extractVars, batch, closed, destroying>>

(***************************************************************************)
(* The specifications.                                                     *)
(***************************************************************************)
\* No call of extractFromText on its own, and no destroy
RestInit ==
  /\ sample = NoSample
  /\ closed = {}
  /\ destroying = [u \in UserIds |-> 0]

InitSearch == SearchInit /\ ExtractInit /\ batch = NoBatch /\ RestInit

NextSearch ==
  \/ \E i \in ReqIds, route \in Routes, hdr \in Headers : SearchUnauthorized(i, route, hdr)
  \/ \E i \in ReqIds, q \in DdgQueries : DdgArrive(i, q)
  \/ \E i \in ReqIds : DdgWake(i)
  \/ \E i \in ReqIds, up \in DdgUpstream : DdgReturn(i, up)
  \/ \E i \in ReqIds, q \in GoogleQueries : GoogleArrive(i, q)
  \/ \E i \in ReqIds, up \in GoogleUpstream : GoogleReturn(i, up)
  \/ \E d \in TickSteps : Tick(d)

SpecSearch == InitSearch /\ [][NextSearch]_vars

InitExtract == SearchInit /\ lastSearchTs = 0 /\ ExtractInit /\ batch = NoBatch /\ RestInit

NextExtract ==
  \/ \E i \in CallIds, route \in ExtractRoutes, hdr \in Headers :
       ExtractUnauthorized(i, route, hdr)
  \/ \E i \in CallIds : Health(i)
  \/ \E i \in CallIds, u \in UserIds : ExtractArrive(i, u)
  \/ \E i \in CallIds, f \in FetchOutcomes : FetchDone(i, f)
  \/ \E i \in CallIds : TextDone(i)
  \/ \E i \in CallIds : NewContextDone(i)
  \/ \E i \in CallIds : AddInitScriptDone(i)
  \/ \E i \in CallIds : SessionPageDone(i)
  \/ \E i \in CallIds : RouteDone(i)
  \/ \E i \in CallIds : NewPageDone(i)
  \/ \E i \in CallIds, ok \in BOOLEAN : GotoDone(i, ok)
  \/ \E i \in CallIds : WaitDone(i)
  \/ \E i \in CallIds, out \in EvalOutcomes : EvaluateDone(i, out)
  \/ \E i \in CallIds : CloseDone(i)

SpecExtract == InitExtract /\ [][NextExtract]_vars

\* Every await of a request in flight completes: the browser and the network
\* answer, or the call's timeout does.
Progress(i) ==
  \/ \E f \in FetchOutcomes : FetchDone(i, f)
  \/ TextDone(i)
  \/ NewContextDone(i)
  \/ AddInitScriptDone(i)
  \/ SessionPageDone(i)
  \/ RouteDone(i)
  \/ NewPageDone(i)
  \/ \E ok \in BOOLEAN : GotoDone(i, ok)
  \/ WaitDone(i)
  \/ \E out \in EvalOutcomes : EvaluateDone(i, out)
  \/ CloseDone(i)

\* The browser path alone: every call is one user's and its fast path gives
\* extractOneUrl nothing (its fetch fails, or the excerpt is not in the text).
Escalating ==
  {f \in FetchOutcomes :
     f.kind # "textThrow" /\ ExtractFast(f, Url, Excerpt, CharsBefore, CharsAfter) = {}}

NextBrowserPath ==
  \/ \E i \in CallIds : ExtractArrive(i, "u1")
  \/ \E i \in CallIds, f \in Escalating : FetchDone(i, f)
  \/ \E i \in CallIds : TextDone(i)
  \/ \E i \in CallIds : NewContextDone(i)
  \/ \E i \in CallIds : AddInitScriptDone(i)
  \/ \E i \in CallIds : SessionPageDone(i)
  \/ \E i \in CallIds : RouteDone(i)
  \/ \E i \in CallIds : NewPageDone(i)
  \/ \E i \in CallIds, ok \in BOOLEAN : GotoDone(i, ok)
  \/ \E i \in CallIds : WaitDone(i)
  \/ \E i \in CallIds, out \in EvalOutcomes : EvaluateDone(i, out)
  \/ \E i \in CallIds : CloseDone(i)

SpecBrowserPath == InitExtract /\ [][NextBrowserPath]_vars

SpecBrowserPathFair == SpecBrowserPath /\ \A i \in CallIds : WF_vars(Progress(i))

InitText ==
  /\ SearchInit /\ lastSearchTs = 0 /\ ExtractInit /\ batch = NoBatch
  /\ closed = {} /\ destroying = [u \in UserIds |-> 0]
  /\ SampleInit

NextText ==
  \/ ExtractFromTextReturn
  \/ ExtractOneUrlReturn

SpecText == InitText /\ [][NextText]_vars

InitBatch == InitExtract

NextBatch ==
  \/ \E hdr \in Headers, n \in 0..MaxItems : BatchUnauthorized(hdr, n)
  \/ \E n \in 0..MaxItems : BatchArrive(n)
  \/ \E k \in 1..MaxItems, f \in FetchOutcomes : BatchItemDone(k, f)
  \/ BatchRespond

(***************************************************************************)
(* The session pool with destroy: extractions of one user that take the    *)
(* browser path, while that user's session is destroyed.                   *)
(***************************************************************************)
InitDestroy == InitExtract

NextDestroy ==
  \/ NextBrowserPath
  \/ \E u \in UserIds : DestroyStart(u)
  \/ \E u \in UserIds : DestroyDone(u)

SpecDestroy == InitDestroy /\ [][NextDestroy]_vars

SpecBatch == InitBatch /\ [][NextBatch]_vars

(***************************************************************************)
(* The throttle gate among all the routes: searches of both backends for   *)
(* one query, next to an /extract request answered by the fast path and an *)
(* /extract-batch request of one item.                                     *)
(***************************************************************************)
GateQuery == <<"a">>
GateFetch == Fetched("ok", <<" ", "T">>, TextHit, <<"x">>)

InitGate == InitSearch

NextGate ==
  \/ \E i \in ReqIds : DdgArrive(i, GateQuery)
  \/ \E i \in ReqIds : DdgWake(i)
  \/ \E i \in ReqIds : DdgReturn(i, [kind |-> "html", status |-> 200, blocks |-> PageMixed])
  \/ \E i \in ReqIds : GoogleArrive(i, GateQuery)
  \/ \E i \in ReqIds :
       GoogleReturn(i, [kind |-> "json", status |-> 200, hasMessage |-> FALSE,
                        organic |-> OrganicDup])
  \/ Tick(CACHE_TTL - 1)
  \/ ExtractArrive(1, "u1")
  \/ FetchDone(1, GateFetch)
  \/ TextDone(1)
  \/ BatchArrive(1)
  \/ BatchItemDone(1, GateFetch)
  \/ BatchRespond

SpecGate == InitGate /\ [][NextGate]_vars

(***************************************************************************)
(* Properties of the search service.                                       *)
(***************************************************************************)
\* Request j arrives in this step, passes the middleware and runs its handler.
Arrives(j) == req[j].pc = "idle" /\ req'[j].pc # "idle" /\ req'[j].hdr = "valid"

\* Request j dispatches its upstream fetch in this step.
Dispatches(j) == req[j].pc # "fetch" /\ req'[j].pc = "fetch"

\* C1 (throttle gap): whenever a scraped-backend search dispatches its
\* upstream fetch, the previous scraped-backend dispatch, if there was one,
\* lies at least MIN_GAP_MS back; time never runs backwards, so any two
\* dispatches are then at least MIN_GAP_MS apart.
C1_ThrottleGap ==
  [][\A j \in ReqIds :
       (Dispatches(j) /\ req'[j].route = "ddg")
         => (lastDispatch = 0 \/ clock - lastDispatch >= MIN_GAP_MS)]_vars

\* C2 as claimed (cache idempotence): if search i of a backend has answered
\* with results fetched upstream at time doneAt and a search j of the same
\* backend with the same normalized query arrives before doneAt + TTL, then
\* j is answered at once, from the cache, with i's results and no upstream call.
C2_CacheIdempotenceAsClaimed ==
  [][\A i, j \in ReqIds :
       (/\ Arrives(j)
        /\ req[i].pc = "done" /\ req[i].resp.kind = "results" /\ req[i].upstream = 1
        /\ req[i].route = req'[j].route /\ req[i].key = req'[j].key
        /\ clock < req[i].doneAt + TtlOf(req[i].route))
         => (/\ req'[j].pc = "done"
             /\ req'[j].resp.cached
             /\ req'[j].resp.results = req[i].resp.results
             /\ req'[j].upstream = 0)]_vars

\* C2 as amended: if search i of a backend stored its results under its key,
\* that entry is still the one in the map under the key, and a search j of
\* the same backend with the same key arrives before the entry is TTL old,
\* then j is answered at once, from the cache, with exactly i's results,
\* and dispatches no upstream call.
C2_CacheIdempotence ==
  [][\A i, j \in ReqIds :
       (/\ Arrives(j)
        /\ req[i].stored
        /\ req[i].route = req'[j].route /\ req[i].key = req'[j].key
        /\ searchCache[req[i].key].present /\ searchCache[req[i].key].by = i
        /\ clock < searchCache[req[i].key].ts + TtlOf(req[i].route))
         => (/\ req'[j].pc = "done"
             /\ req'[j].resp = JsonResults(req[i].resp.results, TRUE)
             /\ req'[j].servedFrom = i
             /\ req'[j].upstream = 0
             /\ UNCHANGED <<searchCache, bulk, lastSearchTs, lastDispatch>>)]_vars

\* C2's case: a SERP API search served from an entry another search stored,
\* later than the scraped backend's TTL after it was stored.
C2_Witness ==
  \E i, j \in ReqIds :
    /\ i # j /\ req[j].pc = "done" /\ req[j].resp.cached /\ req[j].servedFrom = i
    /\ req[i].stored /\ req[i].route = "google" /\ req[j].route = "google"
    /\ req[j].seenAge >= CACHE_TTL
    /\ req[j].resp.results = req[i].resp.results /\ req[j].resp.results # <<>>

\* C3 (cache expiry): a search whose lookup found an entry at least its
\* backend's TTL old is not answered from the cache: it goes on to the
\* upstream call (the scraped backend through the throttle), and once it has
\* answered it has dispatched one upstream call and is not marked cached.
C3_CacheExpiry ==
  \A j \in ReqIds :
    (req[j].hdr = "valid" /\ req[j].seenAge >= TtlOf(req[j].route))
      => /\ req[j].pc \in {"sleep", "fetch", "done"}
         /\ ~req[j].resp.cached
         /\ req[j].servedFrom = 0
         /\ req[j].pc \in {"fetch", "done"} => req[j].upstream = 1

\* C3's case: a search that found an entry exactly TTL old and has answered.
C3_Witness ==
  \E j \in ReqIds :
    /\ req[j].hdr = "valid" /\ req[j].seenAge = TtlOf(req[j].route)
    /\ req[j].pc = "done" /\ req[j].upstream = 1 /\ req[j].resp.kind = "results"

\* C4 (cross-backend key isolation): a key used by a scraped-backend search
\* is never a key used by a SERP API search, no response of one backend is
\* built from an entry the other backend stored, and no store of one backend
\* replaces an entry the other backend stored.
C4_KeyIsolation ==
  /\ [](\A i, j \in ReqIds :
          (req[i].hdr = "valid" /\ req[i].route = "ddg"
           /\ req[j].hdr = "valid" /\ req[j].route = "google")
            => req[i].key # req[j].key)
  /\ [](\A j \in ReqIds :
          req[j].servedFrom # 0 => req[req[j].servedFrom].route = req[j].route)
  /\ [][\A j \in ReqIds :
          (~req[j].stored /\ req'[j].stored /\ searchCache[req[j].key].present)
            => req[searchCache[req[j].key].by].route = req[j].route]_vars

(***************************************************************************)
(* Properties of the session pool and of extraction.                       *)
(***************************************************************************)
\* The call is inside getSession, creating a context.
InGetSession(i) == call[i].pc \in {"newContext", "addInitScript", "sessionPage", "route"}

\* The call has been handed a session by getSession.
HasSession(i) ==
  call[i].browser /\ call[i].ctx # 0 /\ ~InGetSession(i)

\* C5 (one session per user identifier): under any interleaving of
\* getSession calls, at most one context is ever created for a userId,
\* every caller for that userId is handed the same session, and every
\* context whose creation has finished is the one the sessions map holds.
C5_OneSessionPerUser ==
  /\ \A u \in UserIds :
       Cardinality({c \in CallIds : contexts[c].made /\ contexts[c].user = u}) <= 1
  /\ \A i, j \in CallIds :
       (HasSession(i) /\ HasSession(j) /\ call[i].userId = call[j].userId)
         => call[i].ctx = call[j].ctx
  /\ \A c \in CallIds :
       (contexts[c].made /\ \A i \in CallIds : ~(InGetSession(i) /\ call[i].ctx = c))
         => sessions[contexts[c].user] = c

\* The extraction pages: those extractOneUrl opened (the session's own page
\* has owner 0).
ExtractionPages == {p \in PageIds : pages[p].made /\ pages[p].owner # 0}

\* C6 (scoped page release): a call that has answered has closed the page it
\* opened; an open extraction page belongs to a call that is between
\* newPage and close, so with no extraction in flight none is open; and
\* every extraction page that is opened is eventually closed.
C6_ScopedPageRelease ==
  /\ [](\A i \in CallIds :
          (call[i].pc = "done" /\ call[i].page # 0) => ~pages[call[i].page].open)
  /\ [](\A p \in ExtractionPages :
          pages[p].open
            => /\ call[pages[p].owner].page = p
               /\ call[pages[p].owner].pc \in {"goto", "waitForFunction", "evaluate", "close"})
  /\ \A i \in CallIds :
       (pages[PageOfCall(i)].made /\ pages[PageOfCall(i)].open)
         ~> (pages[PageOfCall(i)].made /\ ~pages[PageOfCall(i)].open)

\* C6's case: a call whose navigation threw has answered 500 with its page closed.
C6_Witness ==
  \E i \in CallIds :
    /\ call[i].pc = "done" /\ call[i].failed /\ call[i].resp.status = 500
    /\ call[i].page \in ExtractionPages /\ ~pages[call[i].page].open

\* The fast path's body text, while extractFast reads it
FastBody(i) == BodyOf(CHOOSE f \in call[i].httpResp : TRUE)
FastTitle(i) == Trim((CHOOSE f \in call[i].httpResp : TRUE).title)

\* C7 (escalation condition): a call enters the browser path only from a
\* failed fetch (rejected, or a non-success status) or from an empty body
\* text; and a fast path that read a non-empty body text holding neither the
\* excerpt nor its 40-character probe answers NotFound with the text's first
\* 5000 characters, without entering the browser path.
C7_EscalationCondition ==
  [][\A i \in CallIds :
       /\ (~call[i].browser /\ call'[i].browser)
            => (call[i].pc = "fast" \/ (call[i].pc = "text" /\ FastBody(i) = <<>>))
       /\ (/\ call[i].pc = "text" /\ call'[i].pc # "text"
           /\ (CHOOSE f \in call[i].httpResp : TRUE).kind = "ok"
           /\ FastBody(i) # <<>>
           /\ ~Includes(FastBody(i), Excerpt)
           /\ ~Includes(FastBody(i), Slice(Excerpt, 0, PROBE_LEN)))
            => /\ call'[i].pc = "done"
               /\ ~call'[i].browser
               /\ call'[i].resp =
                    ReplyResult(NotFound(FastTitle(i), Url, Slice(FastBody(i), 0, FULLTEXT_MAX)))
    ]_vars

\* C10 (auth gate scope): a request to a route other than /health without
\* the right Authorization header is answered 401 {error: 'unauthorized'}
\* and changes nothing; a /health request is answered {ok: true, sessions}
\* whatever its Authorization header.
C10_AuthGate ==
  /\ [](\A i \in CallIds :
          (call[i].pc = "done" /\ call[i].route # "health" /\ call[i].hdr # "valid")
            => call[i].resp = ReplyError(401, "unauthorized"))
  /\ [][\A i \in CallIds :
          (call[i].pc = "idle" /\ call'[i].pc # "idle"
           /\ call'[i].route # "health" /\ call'[i].hdr # "valid")
            => UNCHANGED <<searchCache, bulk, lastSearchTs, sessions, contexts, pages>>]_vars
  /\ [](\A i \in CallIds :
          (call[i].pc = "done" /\ call[i].route = "health")
            => (call[i].resp.kind = "health" /\ call[i].resp.status = 200
                /\ call[i].resp.sessions >= 0))

(***************************************************************************)
(* Properties of batch extraction.                                         *)
(***************************************************************************)
\* The items whose page was fetched and holds the excerpt
FoundItems == {k \in DOMAIN batch.items :
                 /\ batch.fetched[k].kind = "ok"
                 /\ Includes(BodyOf(batch.fetched[k]), batch.items[k].excerpt)}

\* The items whose page was fetched with a non-empty body text
TextItems == {k \in DOMAIN batch.items :
                /\ batch.fetched[k].kind = "ok"
                /\ BodyOf(batch.fetched[k]) # <<>>}

\* C8 (batch isolation and order): the batch leaves the session pool as it
\* was (no session, no context, no page); each item settles by its own fetch
\* alone, whatever its siblings did; the answer is 200 whichever items
\* failed, and its results are the found items' results, one each, in the
\* order of the items.
C8_BatchIsolationAndOrder ==
  /\ sessions = [u \in UserIds |-> 0]
  /\ \A c \in CallIds : ~contexts[c].made
  /\ \A p \in PageIds : ~pages[p].made
  /\ \A k \in DOMAIN batch.settled :
       batch.settled[k].status # "pending"
         => /\ (k \in FoundItems) <=> (batch.settled[k].status = "fulfilled"
                                       /\ batch.settled[k].value # {})
            /\ \A v \in batch.settled[k].value : v.found /\ v.url = batch.items[k].url
  /\ (batch.pc = "done" /\ batch.hdr = "valid")
       => LET results == batch.resp.results
          IN /\ batch.resp.kind = "results" /\ batch.resp.status = 200
             /\ Len(results) = Cardinality(FoundItems)
             /\ {results[a].url : a \in DOMAIN results} = FoundItems
             /\ \A a, b \in DOMAIN results : a < b => results[a].url < results[b].url
             /\ \A a \in DOMAIN results :
                  results[a] \in batch.settled[results[a].url].value

\* C8's case: a batch of at least three items has answered; reading item 2's
\* body threw, item 3's fetch was rejected, every other item was found.
C8_Witness ==
  /\ batch.pc = "done" /\ batch.hdr = "valid" /\ Len(batch.items) = MaxItems
  /\ MaxItems >= 3
  /\ batch.fetched[2].kind = "textThrow" /\ batch.fetched[3].kind = "throw"
  /\ FoundItems = DOMAIN batch.items \ {2, 3}
  /\ Len(batch.resp.results) = MaxItems - 2

\* C9 (batch keeps content-not-found outcomes): once the batch has answered,
\* every item fetched with a non-empty body text that holds neither the
\* excerpt nor its probe has a NotFound result (found: false, with the
\* text's first 5000 characters), and there are as many results as items
\* fetched with a non-empty body text.
C9_BatchKeepsNotFound ==
  (batch.pc = "done" /\ batch.hdr = "valid")
    => /\ \A k \in TextItems \ FoundItems :
            \E a \in DOMAIN batch.resp.results :
              /\ batch.resp.results[a].url = batch.items[k].url
              /\ ~batch.resp.results[a].found
              /\ batch.resp.results[a].fullText =
                   {Slice(BodyOf(batch.fetched[k]), 0, FULLTEXT_MAX)}
       /\ Len(batch.resp.results) = Cardinality(TextItems)

(***************************************************************************)
(* Further properties of the search service.                               *)
(***************************************************************************)
\* Request j's upstream call returns in this step and its handler answers.
Returns(j) == req[j].pc = "fetch" /\ req'[j].pc = "done"

C12_ScrapedSurfacesFailure ==
  /\ \A j \in ReqIds :
       (/\ req[j].route = "ddg" /\ req[j].pc = "done"
        /\ req[j].upstream = 1 /\ req[j].upStatus # 200)
         => (req[j].resp.kind = "error" /\ ~req[j].stored)
  /\ \A j \in ReqIds :
       (req[j].resp.cached /\ req[req[j].servedFrom].route = "ddg")
         => req[req[j].servedFrom].upStatus = 200

\* C13 (read-time expiry): no response marked cached is built from an entry
\* whose age is at least the TTL of the backend that stored the entry.
C13_ReadTimeExpiry ==
  \A j \in ReqIds :
    req[j].resp.cached
      => req[j].seenAge < TtlOf(req[req[j].servedFrom].route)

(***************************************************************************)
(* Properties of extractFromText.                                          *)
(***************************************************************************)
\* p occurs in s at 0-based index i; and that is its first occurrence
OccursAt(s, p, i) == i + Len(p) <= Len(s) /\ SubSeq(s, i + 1, i + Len(p)) = p
FirstAt(s, p, i) == OccursAt(s, p, i) /\ \A k \in 0..(i - 1) : ~OccursAt(s, p, k)
Occurs(s, p) == \E i \in 0..Len(s) : OccursAt(s, p, i)

\* The excerpt's first 40 characters
ProbeOf(e) == SubSeq(e, 1, IF Len(e) < 40 THEN Len(e) ELSE 40)

\* body[lo .. hi)
Window(body, lo, hi) == SubSeq(body, lo + 1, hi)

\* extractFromText has returned for the sample
Returned == sample.pc \in {"returned", "final"}

\* C14 (exact window): for a non-empty body in which the excerpt first
\* occurs at index i, extractFromText returns found: true, with the title
\* and url passed in and extractedText = body[max(0, i - charsBefore) ..
\* min(len(body), i + len(excerpt) + charsAfter)); its length is charsBefore
\* + len(excerpt) + charsAfter unless the window is clamped.
C14_ExactWindow ==
  Returned =>
    \A i \in 0..Len(sample.body) :
      (sample.body # <<>> /\ FirstAt(sample.body, sample.excerpt, i))
        => LET lo == IF i - sample.charsBefore > 0 THEN i - sample.charsBefore ELSE 0
               to == i + Len(sample.excerpt) + sample.charsAfter
               hi == IF to < Len(sample.body) THEN to ELSE Len(sample.body)
           IN /\ sample.result =
                   {[found |-> TRUE, title |-> SampleTitle, url |-> Url,
                     extractedText |-> {Window(sample.body, lo, hi)}, fullText |-> {}]}
              /\ (i >= sample.charsBefore /\ to <= Len(sample.body))
                   => \A r \in sample.result : \A t \in r.extractedText :
                        Len(t) = sample.charsBefore + Len(sample.excerpt) + sample.charsAfter

\* C14's case: an excerpt found past the start of the text, its window
\* clamped at neither end and wider than the excerpt on both sides.
C14_Witness ==
  /\ Returned /\ sample.excerpt # <<>>
  /\ sample.charsBefore > 0 /\ sample.charsAfter > 0
  /\ \E i \in 1..Len(sample.body) :
       /\ FirstAt(sample.body, sample.excerpt, i)
       /\ i >= sample.charsBefore
       /\ i + Len(sample.excerpt) + sample.charsAfter <= Len(sample.body)
       /\ \E r \in sample.result : r.found

\* C15 (fuzzy window): when the excerpt does not occur in the body but its
\* first 40 characters first occur at index j, extractFromText returns
\* found: true with extractedText = body[max(0, j - charsBefore) ..
\* min(len(body), j + 40 + charsAfter)): the window is sized from the probe.
C15_FuzzyWindow ==
  (Returned /\ ~Occurs(sample.body, sample.excerpt)) =>
    \A j \in 0..Len(sample.body) :
      FirstAt(sample.body, ProbeOf(sample.excerpt), j)
        => LET lo == IF j - sample.charsBefore > 0 THEN j - sample.charsBefore ELSE 0
               to == j + 40 + sample.charsAfter
               hi == IF to < Len(sample.body) THEN to ELSE Len(sample.body)
           IN sample.result =
                {[found |-> TRUE, title |-> SampleTitle, url |-> Url,
                  extractedText |-> {Window(sample.body, lo, hi)}, fullText |-> {}]}

\* C15's case: an excerpt longer than its probe, absent from the body, whose
\* probe is found; the window ends before where an excerpt-sized one would.
C15_Witness ==
  /\ Returned /\ Len(sample.excerpt) > 40
  /\ ~Occurs(sample.body, sample.excerpt)
  /\ \E j \in 0..Len(sample.body) :
       /\ FirstAt(sample.body, ProbeOf(sample.excerpt), j)
       /\ j + Len(sample.excerpt) + sample.charsAfter <= Len(sample.body)
       /\ \E r \in sample.result : \E t \in r.extractedText :
            Len(t) < sample.charsBefore + Len(sample.excerpt) + sample.charsAfter

\* The first min(len(body), 5000) characters of the body
Prefix(body) == SubSeq(body, 1, IF Len(body) < 5000 THEN Len(body) ELSE 5000)

\* r is exactly one variant: found with extractedText and no fullText, or
\* not found with fullText of at most 5000 characters and no extractedText
OneVariant(r) ==
  \/ r.found /\ Cardinality(r.extractedText) = 1 /\ r.fullText = {}
  \/ /\ ~r.found /\ r.extractedText = {} /\ Cardinality(r.fullText) = 1
     /\ \A t \in r.fullText : Len(t) <= 5000

\* C16 as claimed: for every body, the empty one included, in which the
\* excerpt's first 40 characters do not occur, extractFromText returns
\* NotFound with the body's first min(len, 5000) characters; and whatever
\* extractFromText or extractOneUrl returns is exactly one variant.
C16_NotFoundAsClaimed ==
  Returned =>
    /\ ~Occurs(sample.body, ProbeOf(sample.excerpt))
         => sample.result =
              {[found |-> FALSE, title |-> SampleTitle, url |-> Url,
                extractedText |-> {}, fullText |-> {Prefix(sample.body)}]}
    /\ \A r \in sample.result \cup sample.final : OneVariant(r)

\* C16 (NotFound outcome): for every non-empty body in which the excerpt's
\* first 40 characters do not occur, extractFromText returns NotFound with
\* the body's first min(len, 5000) characters; for the empty body it returns
\* null, whatever the excerpt, and the browser path of extractOneUrl returns
\* NotFound with fullText '' in its place; every non-null result of
\* extractFromText, and every result of that path, is exactly one variant.
C16_NotFoundOutcome ==
  Returned =>
    /\ (sample.body # <<>> /\ ~Occurs(sample.body, ProbeOf(sample.excerpt)))
         => sample.result =
              {[found |-> FALSE, title |-> SampleTitle, url |-> Url,
                extractedText |-> {}, fullText |-> {Prefix(sample.body)}]}
    /\ sample.body = <<>> => sample.result = {}
    /\ sample.body # <<>> => Cardinality(sample.result) = 1
    /\ \A r \in sample.result \cup sample.final : OneVariant(r)
    /\ sample.pc = "final"
         => /\ Cardinality(sample.final) = 1
            /\ sample.body # <<>> => sample.final = sample.result
            /\ sample.body = <<>>
                 => sample.final =
                      {[found |-> FALSE, title |-> SampleTitle, url |-> Url,
                        extractedText |-> {}, fullText |-> {<<>>}]}

\* C16's case: a body longer than 5000 characters without the probe, answered
\* NotFound with exactly its first 5000 characters.
C16_Witness ==
  /\ sample.pc = "final" /\ Len(sample.body) > 5000
  /\ ~Occurs(sample.body, ProbeOf(sample.excerpt))
  /\ \E r \in sample.final : ~r.found /\ \E t \in r.fullText : Len(t) = 5000

(***************************************************************************)
(* Properties of the search routes' result lists and of the shared map.    *)
(***************************************************************************)
\* The shape of a scraped result list: at most 10 entries, absolute urls off
\* the ad/redirect path, no url twice, no empty title
ScrapedShape(results) ==
  /\ Len(results) <= 10
  /\ \A k \in 1..Len(results) :
       /\ Len(results[k].url) > 0 /\ results[k].url[1] = "http"
       /\ \A j \in 1..Len(results[k].url) : results[k].url[j] # "duckduckgo.com/y.js"
       /\ results[k].title # <<>>
       /\ \A j \in 1..Len(results) : results[j].url = results[k].url => j = k

\* results are entries of blocks, in the blocks' order
InDocumentOrder(results, blocks) ==
  \E f \in [1..Len(results) -> 1..Len(blocks)] :
    /\ \A k \in 1..Len(results) : results[k].url = blocks[f[k]].href
    /\ \A j, k \in 1..Len(results) : j < k => f[j] < f[k]

\* C17 (scraped result shape): every result list /search/duckduckgo answers
\* with, parsed from the upstream page or served from the cache, has at
\* most 10 entries, absolute urls off the ad/redirect path, no url twice and
\* no empty title; a list parsed from the result page keeps the order of the
\* page's blocks.
C17_ScrapedResultShape ==
  \A i \in ReqIds :
    (req[i].route = "ddg" /\ req[i].resp.kind = "results")
      => /\ ScrapedShape(req[i].resp.results)
         /\ (~req[i].resp.cached /\ req[i].upStatus = 200)
              => InDocumentOrder(req[i].resp.results, PageMixed)

\* Request j's handler writes a cache entry in this step.
Stores(j) == Returns(j) /\ req'[j].stored

\* An entry of the map is gone after this step.
Removes ==
  \/ \E k \in Keys : searchCache[k].present /\ ~searchCache'[k].present
  \/ bulk'.n < bulk.n

\* The map's size once request j's entry is set
SizeAfterSet(j) ==
  SizeOf(searchCache, bulk) + (IF searchCache[req[j].key].present THEN 0 ELSE 1)

\* No entry older than the scraped backend's TTL is in the map after the step.
NoneOldAfter ==
  /\ \A k \in Keys : searchCache'[k].present => clock' - searchCache'[k].ts <= CACHE_TTL
  /\ bulk'.n > 0 => clock' - bulk'.ts <= CACHE_TTL

\* C18 (eviction on store): entries leave the map only in a step that
\* stores one; and after every store, by either route, that brings the map
\* to more than 500 entries, no entry older than 10 minutes is left.
C18_EvictionOnStore ==
  [][/\ Removes => \E j \in ReqIds : Stores(j)
     /\ \A j \in ReqIds :
          (Stores(j) /\ SizeAfterSet(j) > EVICT_THRESHOLD) => NoneOldAfter
    ]_vars

(***************************************************************************)
(* Properties of the throttle gate.                                        *)
(***************************************************************************)
\* Request j's lookup found no fresh entry for the scraped backend.
MissedCache(j) == req'[j].seenAge = -1 \/ req'[j].seenAge >= CACHE_TTL

\* C19 (throttle frame): lastSearchTs changes only when a /search/duckduckgo
\* request that missed the cache dispatches, and becomes the time of the
\* dispatch; only such a request waits on the gate, and when it does it asks
\* for a delay of at most MIN_GAP_MS, and it dispatches at once exactly when
\* the last dispatch lies MIN_GAP_MS back; a /search/google request and a
\* /search/duckduckgo request answered from the cache neither wait nor
\* change lastSearchTs; nor does any step of an /extract or /extract-batch
\* request, which leaves every search request as it was.
C19_ThrottleFrame ==
  [][/\ lastSearchTs' # lastSearchTs
          => /\ lastSearchTs' = clock
             /\ \E j \in ReqIds :
                  Dispatches(j) /\ req'[j].route = "ddg" /\ MissedCache(j)
     /\ \A j \in ReqIds :
          /\ (req[j].pc # "sleep" /\ req'[j].pc = "sleep")
               => /\ Arrives(j) /\ req'[j].route = "ddg" /\ MissedCache(j)
                  /\ req'[j].wakeAt - clock > 0
                  /\ req'[j].wakeAt - clock <= MIN_GAP_MS
                  /\ req'[j].wakeAt = lastSearchTs + MIN_GAP_MS
          /\ (Arrives(j) /\ req'[j].route = "ddg" /\ req'[j].pc = "fetch")
               => clock - lastSearchTs >= MIN_GAP_MS
          /\ (Arrives(j) /\ (req'[j].route = "google" \/ req'[j].resp.cached))
               => /\ req'[j].pc \in {"fetch", "done"}
                  /\ req'[j].wakeAt = 0
                  /\ lastSearchTs' = lastSearchTs
     /\ (call' # call \/ batch' # batch)
          => lastSearchTs' = lastSearchTs /\ req' = req
    ]_vars

\* C19's case: a scraped search waits on the gate for the whole gap, while a
\* SERP API search has dispatched at once, and an /extract and an
\* /extract-batch request have been answered, none of them moving
\* lastSearchTs from the scraped dispatch that set it.
C19_Witness ==
  \E i, j \in ReqIds :
    /\ req[i].route = "ddg" /\ req[i].pc = "sleep"
    /\ req[i].wakeAt = clock + MIN_GAP_MS
    /\ req[j].route = "google" /\ req[j].pc = "done" /\ req[j].upstream = 1
    /\ lastSearchTs = clock
    /\ call[1].pc = "done" /\ batch.pc = "done"

(***************************************************************************)
(* Properties of destroy.                                                  *)
(***************************************************************************)
\* getSession hands call i a session in this step.
GetsSession(i) == ~HasSession(i) /\ HasSession(i)'

\* destroy(u) returns in this step.
DestroyReturns(u) == destroying[u] # 0 /\ destroying'[u] = 0

\* C20 (destroy versus getSession): getSession never hands out a session
\* whose context has been closed or is being closed; when destroy(userId)
\* returns, the map holds no entry for userId that refers to a closed
\* context; only a context the map holds is ever closed and only a
\* returning destroy removes an entry, so a destroy of a userId the map does
\* not hold changes nothing.
C20_DestroyVersusGetSession ==
  [][/\ \A i \in CallIds : GetsSession(i) => call'[i].ctx \notin closed'
     /\ \A u \in UserIds :
          /\ DestroyReturns(u) => (sessions'[u] = 0 \/ sessions'[u] \notin closed')
          /\ (sessions[u] # 0 /\ sessions'[u] = 0) => DestroyReturns(u)
     /\ closed' \subseteq closed \cup {sessions[u] : u \in {v \in UserIds : sessions[v] # 0}}
    ]_vars

=============================================================================
